---- MODULE Spec2Model ----
(***************************************************************************)
(* Model of generate-package-exports (src/generate-package-exports/main.ts) *)
(* and of the helpers it uses from src/utils.ts.                           *)
(*                                                                         *)
(* A JavaScript string is a sequence of one-character strings; the two     *)
(* non-ASCII characters of the model are written "U+00E9" (e with acute,   *)
(* precomposed) and "U+0301" (combining acute accent).                     *)
(***************************************************************************)
EXTENDS Integers, Sequences, FiniteSets, TLC

VARIABLES argv, dirs, disk, disk0, pc, err, matcher_args, matcher_calls,
          files, emitted, package_files, writes, input, named

vars == <<argv, dirs, disk, disk0, pc, err, matcher_args, matcher_calls,
          files, emitted, package_files, writes, input, named>>

(***************************************************************************)
(* Bounds of the model.                                                    *)
(***************************************************************************)
\* longest result list the matcher returns
MaxFiles == 3
\* longest basename given to the identifier conversion
MaxLen == 3

(***************************************************************************)
(* Characters.                                                             *)
(***************************************************************************)
Lower == <<"a", "b", "c", "d", "e", "f", "g", "h", "i", "j", "k", "l", "m", "n", "o", "p", "q", "r", "s", "t", "u", "v", "w", "x", "y", "z">>
Upper == <<"A", "B", "C", "D", "E", "F", "G", "H", "I", "J", "K", "L", "M", "N", "O", "P", "Q", "R", "S", "T", "U", "V", "W", "X", "Y", "Z">>
Digits == <<"0", "1", "2", "3", "4", "5", "6", "7", "8", "9">>

IndexIn(seq, c) == CHOOSE i \in 1..Len(seq) : seq[i] = c
InSeq(seq, c) == \E i \in 1..Len(seq) : seq[i] = c

\* String.prototype.toUpperCase on one character
ToUpperChar(c) ==
    IF InSeq(Lower, c) THEN Upper[IndexIn(Lower, c)]
    ELSE IF c = "U+00E9" THEN "U+00C9"
    ELSE c

\* the case folding of the /i flag on one character
ToLowerChar(c) ==
    IF InSeq(Upper, c) THEN Lower[IndexIn(Upper, c)]
    ELSE IF c = "U+00C9" THEN "U+00E9"
    ELSE c

\* the UTF-16 code unit of a character
CodeUnit(c) ==
    IF InSeq(Lower, c) THEN 96 + IndexIn(Lower, c)
    ELSE IF InSeq(Upper, c) THEN 64 + IndexIn(Upper, c)
    ELSE IF InSeq(Digits, c) THEN 47 + IndexIn(Digits, c)
    ELSE CASE c = "\n" -> 10
           [] c = " " -> 32
           [] c = "\"" -> 34
           [] c = "*" -> 42
           [] c = "-" -> 45
           [] c = "." -> 46
           [] c = "/" -> 47
           [] c = "?" -> 63
           [] c = "@" -> 64
           [] c = "[" -> 91
           [] c = "]" -> 93
           [] c = "_" -> 95
           [] c = "{" -> 123
           [] c = "}" -> 125
           [] c = "U+00C9" -> 201
           [] c = "U+00E9" -> 233
           [] c = "U+0301" -> 769

(***************************************************************************)
(* String operations.                                                      *)
(***************************************************************************)
RECURSIVE Flatten(_)
Flatten(ss) == IF ss = <<>> THEN <<>> ELSE Head(ss) \o Flatten(Tail(ss))

\* Array.prototype.join
RECURSIVE JoinWith(_, _)
JoinWith(parts, sep) ==
    IF parts = <<>> THEN <<>>
    ELSE IF Len(parts) = 1 THEN parts[1]
    ELSE parts[1] \o sep \o JoinWith(Tail(parts), sep)

\* String.prototype.split on a set of one-character separators
RECURSIVE SplitOn(_, _)
SplitOn(s, seps) ==
    IF \A i \in 1..Len(s) : s[i] \notin seps THEN <<s>>
    ELSE LET k == CHOOSE i \in 1..Len(s) :
                      s[i] \in seps /\ \A j \in 1..(i - 1) : s[j] \notin seps
         IN  <<SubSeq(s, 1, k - 1)>> \o SplitOn(SubSeq(s, k + 1, Len(s)), seps)

startsWith(s, p) == Len(s) >= Len(p) /\ SubSeq(s, 1, Len(p)) = p
endsWith(s, p) == Len(s) >= Len(p) /\ SubSeq(s, Len(s) - Len(p) + 1, Len(s)) = p
includes(s, c) == \E i \in 1..Len(s) : s[i] = c
replaceAll(s, a, b) == [i \in 1..Len(s) |-> IF s[i] = a THEN b ELSE s[i]]
Range(s) == {s[i] : i \in 1..Len(s)}

\* String.prototype.slice(0, -n): slice(0, -0) is slice(0, 0)
sliceOff(s, n) == IF n = 0 \/ n >= Len(s) THEN <<>> ELSE SubSeq(s, 1, Len(s) - n)

(***************************************************************************)
(* utils.ts                                                                *)
(***************************************************************************)
fmtu_part(part) ==
    IF part = <<>> THEN <<>> ELSE <<ToUpperChar(part[1])>> \o Tail(part)

fmtu_first_only(str) ==
    LET parts == SplitOn(str, {"_", "-"})
    IN  JoinWith([i \in 1..Len(parts) |->
                     IF i = 1 THEN fmtu_part(parts[i]) ELSE parts[i]], <<"_">>)

\* input.split(/[_-]/).map(part => part.charAt(0).toUpperCase() + part.slice(1)).join('')
fmtu(str) ==
    LET parts == SplitOn(str, {"_", "-"})
    IN  Flatten([i \in 1..Len(parts) |-> fmtu_part(parts[i])])

(***************************************************************************)
(* Node's path module (posix).                                             *)
(***************************************************************************)
RECURSIVE NormalizeSegs(_, _)
NormalizeSegs(segs, acc) ==
    IF segs = <<>> THEN acc
    ELSE LET s == Head(segs)
         IN  IF s = <<>> \/ s = <<".">> THEN NormalizeSegs(Tail(segs), acc)
             ELSE IF s = <<".", ".">>
                  THEN NormalizeSegs(Tail(segs),
                           IF acc = <<>> THEN acc ELSE SubSeq(acc, 1, Len(acc) - 1))
                  ELSE NormalizeSegs(Tail(segs), Append(acc, s))

\* the segments of an absolute path, normalized
Segs(p) == NormalizeSegs(SplitOn(p, {"/"}), <<>>)
AbsOf(segs) == <<"/">> \o JoinWith(segs, <<"/">>)

\* path.join of absolute first part with further parts
path_join(parts) == AbsOf(Segs(JoinWith(SelectSeq(parts, LAMBDA x : x # <<>>), <<"/">>)))

\* path.resolve(base, rel) with an absolute base
path_resolve(base, rel) == AbsOf(Segs(base \o <<"/">> \o rel))

\* path.basename
path_basename(p) ==
    LET parts == SelectSeq(SplitOn(p, {"/"}), LAMBDA x : x # <<>>)
    IN  IF parts = <<>> THEN <<>> ELSE parts[Len(parts)]

\* path.extname: from the last dot of the basename, unless there is none, the
\* basename starts with it, or the basename is ".."
path_extname(p) ==
    LET b == path_basename(p)
    IN  IF ~includes(b, ".") \/ b = <<".", ".">> THEN <<>>
        ELSE LET d == CHOOSE i \in 1..Len(b) :
                          b[i] = "." /\ \A j \in (i + 1)..Len(b) : b[j] # "."
             IN  IF d = 1 THEN <<>> ELSE SubSeq(b, d, Len(b))

RECURSIVE CommonLen(_, _)
CommonLen(a, b) ==
    IF a = <<>> \/ b = <<>> \/ Head(a) # Head(b) THEN 0
    ELSE 1 + CommonLen(Tail(a), Tail(b))

\* path.relative(from, to), both absolute
path_relative(from, to) ==
    LET f == Segs(from)
        t == Segs(to)
        k == CommonLen(f, t)
    IN  JoinWith([i \in 1..(Len(f) - k) |-> <<".", ".">>] \o SubSeq(t, k + 1, Len(t)), <<"/">>)

(***************************************************************************)
(* String.prototype.localeCompare: the Unicode collation algorithm with    *)
(* the root collation.  A string is turned into collation elements         *)
(* <<primary, secondary, tertiary>>; canonically equivalent strings get    *)
(* the same elements.  Primary weights follow the root order: white space, *)
(* punctuation in the order _ - ? . " [ ] { } @ * /, digits, letters.      *)
(***************************************************************************)
Punct == <<" ", "_", "-", "?", ".", "\"", "[", "]", "{", "}", "@", "*", "/">>

CollationElements(c) ==
    IF InSeq(Punct, c) THEN <<<<IndexIn(Punct, c), 1, 1>>>>
    ELSE IF InSeq(Digits, c) THEN <<<<20 + IndexIn(Digits, c), 1, 1>>>>
    ELSE IF InSeq(Lower, c) THEN <<<<40 + IndexIn(Lower, c), 1, 1>>>>
    ELSE IF InSeq(Upper, c) THEN <<<<40 + IndexIn(Upper, c), 1, 2>>>>
    ELSE CASE c = "U+0301" -> <<<<0, 2, 1>>>>
           [] c = "U+00E9" -> <<<<40 + IndexIn(Lower, "e"), 1, 1>>, <<0, 2, 1>>>>
           [] c = "U+00C9" -> <<<<40 + IndexIn(Lower, "e"), 1, 2>>, <<0, 2, 1>>>>
           [] c = "\n" -> <<>>

Chars ==
    Range(Lower) \cup Range(Upper) \cup Range(Digits) \cup Range(Punct)
        \cup {"\n", "U+00C9", "U+00E9", "U+0301"}

CollationTable == [c \in Chars |-> CollationElements(c)]

\* the weights of one level, ignorable (zero) weights left out
LevelKey(s, level) ==
    LET ces == Flatten([i \in 1..Len(s) |-> CollationTable[s[i]]])
    IN  SelectSeq([i \in 1..Len(ces) |-> ces[i][level]], LAMBDA w : w # 0)

RECURSIVE CompareKeys(_, _)
CompareKeys(a, b) ==
    IF a = <<>> /\ b = <<>> THEN 0
    ELSE IF a = <<>> THEN -1
    ELSE IF b = <<>> THEN 1
    ELSE IF Head(a) < Head(b) THEN -1
    ELSE IF Head(a) > Head(b) THEN 1
    ELSE CompareKeys(Tail(a), Tail(b))

codeUnitCompare(a, b) ==
    CompareKeys([i \in 1..Len(a) |-> CodeUnit(a[i])], [i \in 1..Len(b) |-> CodeUnit(b[i])])

localeCompare(a, b) ==
    LET p == CompareKeys(LevelKey(a, 1), LevelKey(b, 1))
        s == CompareKeys(LevelKey(a, 2), LevelKey(b, 2))
        t == CompareKeys(LevelKey(a, 3), LevelKey(b, 3))
    IN  IF p # 0 THEN p ELSE IF s # 0 THEN s ELSE t

\* Array.prototype.sort((a, b) => a.localeCompare(b)): a stable sort
RECURSIVE InsertStable(_, _)
InsertStable(sorted, x) ==
    IF sorted = <<>> THEN <<x>>
    ELSE IF localeCompare(Head(sorted), x) <= 0
         THEN <<Head(sorted)>> \o InsertStable(Tail(sorted), x)
         ELSE <<x>> \o sorted

RECURSIVE SortLines(_)
SortLines(lines) ==
    IF lines = <<>> THEN <<>>
    ELSE InsertStable(SortLines(SubSeq(lines, 1, Len(lines) - 1)), lines[Len(lines)])

(***************************************************************************)
(* main.ts: constants, inputs and the pure steps of the pipeline.          *)
(***************************************************************************)
None == "none"

\* process.cwd()
Cwd == <<"/", "w">>

Header == <<"/", "/", " ", "C", "r", "e", "a", "t", "e", "d", " ", "b", "y", " ", "@", "r", "a", "d", "r", "o", "o", "t", "s", "/", "d", "e", "v", " ", "g", "e", "n", "e", "r", "a", "t", "e", "-", "p", "a", "c", "k", "a", "g", "e", "-", "e", "x", "p", "o", "r", "t", "s">>
TypesGlob == <<"*", "*", "/", "t", "y", "p", "e", "s", ".", "t", "s">>
BinGlob == <<"*", "*", "/", "b", "i", "n", "/", "*", "*">>
ExtTs == <<".", "t", "s">>
ExtSvelte == <<".", "s", "v", "e", "l", "t", "e">>

\* the files of the scanned tree, relative to the base directory
Tree == { <<"a", ".", "t", "s">>, <<"_", "b", ".", "t", "s">>, <<"u", "-", "c", ".", "s", "v", "e", "l", "t", "e">>, <<"1", "x", ".", "s", "v", "e", "l", "t", "e">>, <<"l", "i", "b", "/", "B", ".", "t", "s">>,
          <<"U+00E9", ".", "t", "s">>, <<"e", "U+0301", ".", "t", "s">> }

\* --dir and --out
DirOuts == { <<<<"s", "r", "c">>, <<"s", "r", "c">>>>, <<<<"s", "r", "c">>, <<"s", "r", "c", "/", "l", "i", "b">>>>, <<<<".", "s", "r", "c">>, <<".">>>> }

\* --dir_skip
DirSkips == { <<>>, <<<<"l", "e", "g", "a", "c", "y">>>>, <<<<"t", "*">>, <<"l", "e", "g", "a", "c", "y">>>>, <<<<"[", "x", "]">>, <<"a", "?">>>> }

\* --include_glob
IncludeGlobs == { <<<<"*", "*", "/", "*", ".", "{", "t", "s", ",", "s", "v", "e", "l", "t", "e", "}">>>> }

\* --ignore_glob: the first patterns of the default list, or none
DefaultIgnore == <<<<"*", "*", "/", "_", "*">>, <<"*", "*", "/", "i", "n", "d", "e", "x", ".", "t", "s">>>>
IgnoreGlobs == { DefaultIgnore, <<>> }

\* the parsed command lines of the model: every --dir/--out pair and value of
\* --is_module with the other options at their defaults, and every value of
\* the options that select files with --dir, --out and --is_module at theirs
Argvs ==
    {a \in [dir : {d[1] : d \in DirOuts}, out : {d[2] : d \in DirOuts},
            is_module : BOOLEAN, include_bin : BOOLEAN, types_only : BOOLEAN,
            dir_skip : DirSkips, include_glob : IncludeGlobs, ignore_glob : IgnoreGlobs] :
        /\ <<a.dir, a.out>> \in DirOuts
        /\ \/ ~a.include_bin /\ ~a.types_only /\ a.dir_skip = <<>>
              /\ a.ignore_glob = DefaultIgnore
           \/ a.dir = <<"s", "r", "c">> /\ a.out = <<"s", "r", "c">> /\ a.is_module}

\* what a previous run or the user left in index.ts
Prior == <<"o", "l", "d">>

\* lines 92-95: the paths paths_assert joins
base_path_of(a) == path_join(<<Cwd, a.dir>>)
out_path_of(a) == path_join(<<Cwd>> \o SplitOn(a.out, {"/"}))
export_path_of(a) == path_join(<<out_path_of(a), <<"i", "n", "d", "e", "x", ".", "t", "s">>>>)

base_path == base_path_of(argv)
out_path == out_path_of(argv)
export_path == export_path_of(argv)

\* existsSync
existsSync(p) == p \in dirs \/ p \in DOMAIN disk

\* paths_assert throws for this path
paths_assert_throws(p) == ~existsSync(p)

\* lines 98-116: the include list, a copy
include_glob_of(a) == IF a.types_only THEN <<TypesGlob>> ELSE a.include_glob

is_glob_star_only(d) == includes(d, "*")

\* line 110: the entry is already a glob
is_glob(d) == includes(d, "*") \/ includes(d, "?") \/ includes(d, "[")

RECURSIVE push_dir_skip(_, _)
push_dir_skip(ignore, skip) ==
    IF skip = <<>> THEN ignore
    ELSE push_dir_skip(
             Append(ignore, IF is_glob(Head(skip)) THEN Head(skip)
                            ELSE <<"*", "*", "/">> \o Head(skip) \o <<"/", "*", "*">>),
             Tail(skip))

ignore_glob_of(a) ==
    push_dir_skip(IF ~a.include_bin THEN Append(a.ignore_glob, BinGlob) ELSE a.ignore_glob,
                  a.dir_skip)

\* line 134: filename.startsWith('_')
skip_underscore_never(filename) == FALSE

skip_underscore(filename) == startsWith(filename, <<"_">>)

\* line 140: path.resolve(base_path, rel_file).replace(/\.(ts|svelte)$/i, '')
abs_no_ext_of(a, rel_file) ==
    LET abs == path_resolve(base_path_of(a), rel_file)
        low == [i \in 1..Len(abs) |-> ToLowerChar(abs[i])]
    IN  IF endsWith(low, ExtTs) THEN sliceOff(abs, Len(ExtTs))
        ELSE IF endsWith(low, ExtSvelte) THEN sliceOff(abs, Len(ExtSvelte))
        ELSE abs

\* lines 143-146
rel_from_out_of(a, rel_file) ==
    LET rel == path_relative(out_path_of(a), abs_no_ext_of(a, rel_file))
    IN  IF ~startsWith(rel, <<".">>) /\ ~startsWith(rel, <<"/">>) THEN <<".", "/">> \o rel ELSE rel

ts_suffix_always(a) == <<".", "j", "s">>

\* line 150: argv.is_module ? '.js' : ''
ts_suffix(a) == IF a.is_module THEN <<".", "j", "s">> ELSE <<>>

\* lines 149-155: the lines one file pushes (none or one)
emit(a, rel_file) ==
    LET filename == path_basename(rel_file)
        ext == path_extname(filename)
        filename_base == sliceOff(filename, Len(ext))
        rel == rel_from_out_of(a, rel_file)
    IN  IF ext = ExtTs
        THEN <<[file |-> rel_file, ext |-> ext, spec |-> rel, name |-> <<>>,
                line |-> <<"e", "x", "p", "o", "r", "t", " ", "*", " ", "f", "r", "o", "m", " ", "\"">> \o rel \o ts_suffix(a) \o <<"\"">>]>>
        ELSE IF ext = ExtSvelte
        THEN LET nm == fmtu(replaceAll(filename_base, "-", "_"))
             IN  <<[file |-> rel_file, ext |-> ext, spec |-> rel, name |-> nm,
                    line |-> <<"e", "x", "p", "o", "r", "t", " ", "{", " ", "d", "e", "f", "a", "u", "l", "t", " ", "a", "s", " ">> \o nm \o <<" ", "}", " ", "f", "r", "o", "m", " ", "\"">>
                             \o rel \o <<"\"">>]>>
        ELSE <<>>

\* lines 132-155: one iteration of the loop
loop_body(a, rel_file) ==
    IF skip_underscore(path_basename(rel_file)) THEN <<>> ELSE emit(a, rel_file)

\* lines 131-156: the loop over the matcher's result
RECURSIVE loop(_, _)
loop(a, fs) ==
    IF fs = <<>> THEN <<>> ELSE loop_body(a, Head(fs)) \o loop(a, Tail(fs))

\* line 163: the text written
artifact(lines) == Header \o <<"\n", "\n">> \o JoinWith(lines, <<"\n">>) \o <<"\n">>

\* lines 129-163 as a function of the matcher's result
lines_of(pushed) == [i \in 1..Len(pushed) |-> pushed[i].line]

artifact_of(a, fs) == artifact(SortLines(lines_of(loop(a, fs))))

\* fs.writeFileSync: creates or truncates
fs_write(d, p, contents) == [q \in DOMAIN d \cup {p} |-> IF q = p THEN contents ELSE d[q]]

\* the result lists the matcher can give: distinct files of the tree, any order
RECURSIVE Lists(_, _)
Lists(S, n) ==
    IF n = 0 THEN {<<>>}
    ELSE {<<>>} \cup UNION {{<<x>> \o l : l \in Lists(S \ {x}, n - 1)} : x \in S}

MatcherResults == Lists(Tree, MaxFiles)

(***************************************************************************)
(* The run.                                                                *)
(***************************************************************************)
Init ==
    /\ argv \in Argvs
    /\ dirs \in {D \cup {Cwd} : D \in SUBSET {base_path, out_path}}
    /\ (out_path \in dirs /\ Len(Segs(out_path)) > Len(Segs(base_path))) => base_path \in dirs
    /\ disk \in {[p \in {} |-> <<>>]}
                \cup (IF out_path \in dirs THEN {[p \in {export_path} |-> Prior]} ELSE {})
    /\ disk0 = disk
    /\ pc = "start"
    /\ err = None
    /\ matcher_args = None
    /\ matcher_calls = 0
    /\ files = <<>>
    /\ emitted = <<>>
    /\ package_files = <<>>
    /\ writes = 0
    /\ input = None
    /\ named = None

\* lines 92-96: the three paths_assert calls; a throw rejects the promise
AssertPathsInitFile ==
    /\ pc = "start"
    /\ IF paths_assert_throws(base_path) \/ paths_assert_throws(out_path)
       THEN /\ pc' = "aborted"
            /\ err' = "PathNotFound"
            /\ UNCHANGED <<disk, writes>>
       ELSE /\ pc' = "asserted"
            /\ disk' = fs_write(disk, export_path, <<>>)
            /\ writes' = writes + 1
            /\ UNCHANGED err
    /\ UNCHANGED <<argv, dirs, disk0, matcher_args, matcher_calls, files, emitted,
                   package_files, input, named>>

AssertPaths ==
    /\ pc = "start"
    /\ IF \/ paths_assert_throws(base_path)
          \/ paths_assert_throws(out_path)
          \/ paths_assert_throws(export_path)
       THEN pc' = "aborted" /\ err' = "PathNotFound"
       ELSE pc' = "asserted" /\ UNCHANGED err
    /\ UNCHANGED <<argv, dirs, disk, disk0, matcher_args, matcher_calls, files, emitted,
                   package_files, writes, input, named>>

\* lines 98-127: the glob lists are built and the matcher is called
CallMatcher ==
    /\ pc = "asserted"
    /\ matcher_args' = [cwd |-> base_path, include |-> include_glob_of(argv),
                        ignore |-> ignore_glob_of(argv)]
    /\ matcher_calls' = matcher_calls + 1
    /\ pc' = "awaiting"
    /\ UNCHANGED <<argv, dirs, disk, disk0, err, files, emitted, package_files, writes,
                   input, named>>

\* line 119: the matcher's promise rejects
MatcherRejects ==
    /\ pc = "awaiting"
    /\ pc' = "aborted"
    /\ err' = "MatcherError"
    /\ UNCHANGED <<argv, dirs, disk, disk0, matcher_args, matcher_calls, files, emitted,
                   package_files, writes, input, named>>

\* lines 119-163: the matcher's promise resolves; loop, sort and write
MatcherResolves ==
    /\ pc = "awaiting"
    /\ \E fs \in MatcherResults :
          /\ files' = fs
          /\ emitted' = loop(argv, fs)
          /\ package_files' = SortLines(lines_of(emitted'))
          /\ disk' = fs_write(disk, export_path, artifact(package_files'))
    /\ writes' = writes + 1
    /\ pc' = "done"
    /\ UNCHANGED <<argv, dirs, disk0, err, matcher_args, matcher_calls, input, named>>

Next == AssertPaths \/ CallMatcher \/ MatcherRejects \/ MatcherResolves

Spec == Init /\ [][Next]_vars

(***************************************************************************)
(* The identifier conversion on its own: line 153 applied to a basename.   *)
(***************************************************************************)
NameChars == {"a", "B", "1", "-", "_"}

RECURSIVE Strings(_, _)
Strings(S, n) ==
    IF n = 0 THEN {<<>>}
    ELSE {<<>>} \cup {<<c>> \o s : c \in S, s \in Strings(S, n - 1)}

InitNaming ==
    /\ argv \in {a \in Argvs : a.dir = a.out /\ a.is_module /\ ~a.include_bin
                               /\ ~a.types_only /\ a.dir_skip = <<>>
                               /\ a.ignore_glob = DefaultIgnore}
    /\ dirs = {Cwd}
    /\ disk = [p \in {} |-> <<>>]
    /\ disk0 = disk
    /\ pc = "naming"
    /\ err = None
    /\ matcher_args = None
    /\ matcher_calls = 0
    /\ files = <<>>
    /\ emitted = <<>>
    /\ package_files = <<>>
    /\ writes = 0
    /\ input \in Strings(NameChars, MaxLen)
    /\ named = None

\* line 153: fmtu(filename_base.replaceAll('-', '_'))
DeriveName ==
    /\ pc = "naming"
    /\ named = None
    /\ named' = fmtu(replaceAll(input, "-", "_"))
    /\ UNCHANGED <<argv, dirs, disk, disk0, pc, err, matcher_args, matcher_calls, files,
                   emitted, package_files, writes, input>>

NextNaming == DeriveName

SpecNaming == InitNaming /\ [][NextNaming]_vars

(***************************************************************************)
(* Properties.                                                             *)
(***************************************************************************)
Letters == Range(Lower) \cup Range(Upper)

\* the lines of the written file after the header and the blank line
ArtifactLines ==
    LET parts == SplitOn(disk[export_path], {"\n"})
    IN  SubSeq(parts, 3, Len(parts) - 1)

IsRelativeSpecifier(spec) == startsWith(spec, <<".", "/">>) \/ startsWith(spec, <<".", ".", "/">>)

\* C1: every import specifier the run computes begins with "./" or "../";
\* none is bare and none is absolute.
C1_SpecifierIsRelative ==
    \A i \in 1..Len(emitted) : IsRelativeSpecifier(emitted[i].spec)

\* C2: the export lines of the written file are in non-decreasing order of
\* their code units: each line is at most the line that follows it.
C2_CodepointSorted ==
    pc = "done" =>
        \A i \in 1..(Len(ArtifactLines) - 1) :
            codeUnitCompare(ArtifactLines[i], ArtifactLines[i + 1]) <= 0

\* a component file whose basename without extension is empty or begins with a digit
IsUnnameable(rel_file) ==
    LET filename == path_basename(rel_file)
    IN  /\ endsWith(filename, ExtSvelte)
        /\ filename[1] # "_"
        /\ \/ Len(filename) = Len(ExtSvelte)
           \/ filename[1] \in Range(Digits)

\* C3: when the matcher returns a component file whose basename is empty or
\* begins with a digit, the run aborts with a naming error and index.ts is
\* left as it was.
C3_NamingErrorAborts ==
    (\E i \in 1..Len(files) : IsUnnameable(files[i])) =>
        pc = "aborted" /\ err = "NamingError" /\ disk = disk0

\* C4: with the base and the output directory present, a run the matcher does
\* not fail ends with index.ts holding the header, a blank line and the lines
\* of this run, whether index.ts existed before or not.
C4_CreatesOrTruncates ==
    (pc \in {"done", "aborted"} /\ base_path \in dirs /\ out_path \in dirs
        /\ err # "MatcherError") =>
        /\ pc = "done"
        /\ export_path \in DOMAIN disk
        /\ disk[export_path] = artifact(package_files)

\* C5: no line of the written file comes from a file whose last path segment
\* begins with an underscore, whatever the matcher returned.
C5_NoUnderscoreFile ==
    pc = "done" =>
        \A k \in 1..Len(ArtifactLines) :
            \/ ArtifactLines[k] = <<>> /\ emitted = <<>>
            \/ \E i \in 1..Len(emitted) :
                  /\ emitted[i].line = ArtifactLines[k]
                  /\ path_basename(emitted[i].file)[1] # "_"

C5_Witness ==
    /\ pc = "done"
    /\ \E i \in 1..Len(files) : path_basename(files[i])[1] = "_"
    /\ emitted # <<>>

CarriesSuffix(e) == endsWith(e.line, <<"\"">> \o e.spec \o <<".", "j", "s", "\"">>)
CarriesNoSuffix(e) == endsWith(e.line, <<"\"">> \o e.spec \o <<"\"">>)

\* C6: a line carries the ".js" suffix after its specifier exactly when it
\* comes from a .ts file and is_module is true; otherwise the specifier is
\* followed by the closing quote.
C6_SuffixIffPlainModule ==
    \A i \in 1..Len(emitted) :
        IF emitted[i].ext = ExtTs /\ argv.is_module
        THEN CarriesSuffix(emitted[i]) /\ ~CarriesNoSuffix(emitted[i])
        ELSE CarriesNoSuffix(emitted[i]) /\ ~CarriesSuffix(emitted[i])

C6_Witness ==
    /\ pc = "done"
    /\ argv.is_module
    /\ \E i, j \in 1..Len(emitted) :
          /\ emitted[i].ext = ExtTs
          /\ CarriesSuffix(emitted[i])
          /\ emitted[j].ext = ExtSvelte
          /\ CarriesNoSuffix(emitted[j])

\* [a-zA-Z][a-zA-Z0-9_-]*
MatchesBasenamePattern(s) ==
    /\ s # <<>>
    /\ s[1] \in Letters
    /\ \A i \in 2..Len(s) : s[i] \in Letters \cup Range(Digits) \cup {"_", "-"}

\* C7: for a basename matching [a-zA-Z][a-zA-Z0-9_-]* the derived identifier
\* has no "-" and no "_" and begins with an uppercase letter.
C7_ValidIdentifier ==
    (named # None /\ MatchesBasenamePattern(input)) =>
        /\ named # <<>>
        /\ named[1] \in Range(Upper)
        /\ \A i \in 1..Len(named) : named[i] \notin {"-", "_"}

C7_Witness ==
    /\ named # None
    /\ MatchesBasenamePattern(input)
    /\ Len(input) >= 3
    /\ input[Len(input)] \in {"-", "_"}
    /\ input[Len(input) - 1] \in {"-", "_"}

C9_OrderIndependent ==
    pc = "done" =>
        \A fs \in MatcherResults :
            (Len(fs) = Len(files) /\ Range(fs) = Range(files)) =>
                artifact_of(argv, fs) = disk[export_path]

HasWildcard(d) == \E i \in 1..Len(d) : d[i] \in {"*", "?", "["}

ExpectedIgnore(a) ==
    a.ignore_glob
        \o (IF a.include_bin THEN <<>> ELSE <<BinGlob>>)
        \o [i \in 1..Len(a.dir_skip) |->
               IF HasWildcard(a.dir_skip[i]) THEN a.dir_skip[i]
               ELSE <<"*", "*", "/">> \o a.dir_skip[i] \o <<"/", "*", "*">>]

ExpectedInclude(a) == IF a.types_only THEN <<TypesGlob>> ELSE a.include_glob

\* C10: the matcher is called with the configured ignore_glob, then "**/bin/**"
\* exactly when include_bin is false, then one pattern per dir_skip entry in
\* order (the entry itself when it has a wildcard, "**/<entry>/**" otherwise),
\* and with ["**/types.ts"] or the configured include_glob; no step changes
\* the configured lists.
C10_EffectiveGlobs ==
    [][/\ argv' = argv
       /\ pc' = "awaiting" =>
              /\ matcher_args'.ignore = ExpectedIgnore(argv)
              /\ matcher_args'.include = ExpectedInclude(argv)
              /\ matcher_args'.cwd = base_path]_vars

C10_Witness ==
    /\ pc = "awaiting"
    /\ ~argv.include_bin
    /\ \E i, j \in 1..Len(argv.dir_skip) :
          HasWildcard(argv.dir_skip[i]) /\ ~HasWildcard(argv.dir_skip[j])
    /\ Len(matcher_args.ignore) = Len(argv.ignore_glob) + 1 + Len(argv.dir_skip)

====
